---- MODULE Spec2Model ----
(***************************************************************************)
(* Model of the Accurate sales dashboard (acis05/Pbiacis):                 *)
(*   parser_accurate_html.py  _parse_date, _parse_number, parse_html_content*)
(*   database.py              insert_rows, clear_sales, _parse_any_date,   *)
(*                            fetch_sales                                  *)
(*   database.py              upsert_access_code, get_active_access_code   *)
(*   main.py                  _aggregate_top_n, _get_year_month,           *)
(*                            _get_prev_year_month, _build_monthly_top,    *)
(*                            build_dashboard_data, is_authorized,         *)
(*                            access_submit, upload, get_sales,            *)
(*                            get_dashboard_data                           *)
(*                                                                         *)
(* Texts are TLA+ strings read character by character.  An optional value  *)
(* (Python None or a value) is a sequence of length 0 or 1.  Amounts are   *)
(* integers: every float the model adds is an integer far below 2^53, so   *)
(* float addition is exact; a float quotient is kept as a reduced fraction.*)
(***************************************************************************)
EXTENDS Integers, Sequences, FiniteSets, TLC

VARIABLES
    sales_detail,   \* rows of table sales_detail, in id order
    rows,           \* the record collection in hand (parsed or fetched)
    op,             \* the operation that ran last
    args,           \* its arguments
    out,            \* its result
    hashseed,       \* the process's string-hash seed (orders set iteration)
    access_codes,   \* rows of table access_codes, in id order
    replacing       \* the replacement of the stored rows that is under way

vars == <<sales_detail, rows, op, args, out, hashseed, access_codes, replacing>>

----------------------------------------------------------------------------
(* Bounds of the model *)

MaxStored == 2      \* rows kept in sales_detail
MaxN == 3           \* largest n handed to _aggregate_top_n
MaxSeed == 1        \* hash seeds 0..MaxSeed
MaxPad == 11        \* extra one-record labels in the month-over-month inputs
MaxFree == 2        \* freely chosen records in the month-over-month inputs

----------------------------------------------------------------------------
(* Python values *)

None == <<>>
Some(v) == <<v>>
\* Python truthiness of an optional text: None and "" are falsy.
IsNotNone(o) == o # None
TruthyText(o) == o # None /\ o[1] # ""
\* r.get("amount") or 0
AmountOrZero(o) == IF o = None THEN 0 ELSE o[1]

Char(s, i) == SubSeq(s, i, i)
Digits == {"0", "1", "2", "3", "4", "5", "6", "7", "8", "9"}
DigitVal(c) ==
    CASE c = "0" -> 0 [] c = "1" -> 1 [] c = "2" -> 2 [] c = "3" -> 3
      [] c = "4" -> 4 [] c = "5" -> 5 [] c = "6" -> 6 [] c = "7" -> 7
      [] c = "8" -> 8 [] c = "9" -> 9
AllDigits(s) == \A i \in 1..Len(s) : Char(s, i) \in Digits

RECURSIVE DecimalValue(_)
DecimalValue(s) ==
    IF Len(s) = 0 THEN 0
    ELSE 10 * DecimalValue(SubSeq(s, 1, Len(s) - 1)) + DigitVal(Char(s, Len(s)))

\* str.split(sep) for a one-character separator: the fields between separators.
RECURSIVE SplitOn(_, _)
SplitOn(s, sep) ==
    IF \A i \in 1..Len(s) : Char(s, i) # sep THEN <<s>>
    ELSE LET k == CHOOSE i \in 1..Len(s) :
                      Char(s, i) = sep /\ \A j \in 1..(i - 1) : Char(s, j) # sep
         IN <<SubSeq(s, 1, k - 1)>> \o SplitOn(SubSeq(s, k + 1, Len(s)), sep)

----------------------------------------------------------------------------
(* Calendar: datetime.date validity *)

IsLeap(y) == (y % 4 = 0 /\ y % 100 # 0) \/ y % 400 = 0
DaysInMonth(y, m) ==
    IF m = 2 THEN (IF IsLeap(y) THEN 29 ELSE 28)
    ELSE IF m \in {4, 6, 9, 11} THEN 30 ELSE 31
ValidDate(y, m, d) ==
    /\ y >= 1 /\ y <= 9999
    /\ m >= 1 /\ m <= 12
    /\ d >= 1 /\ d <= DaysInMonth(y, m)

----------------------------------------------------------------------------
(* datetime.strptime with the directives %Y %y %m %d and one separator     *)
(* character; a failed parse (ValueError) is NoDate.                       *)

NoDate == <<>>

MatchY4(f) == Len(f) = 4 /\ AllDigits(f)
MatchY2(f) == Len(f) = 2 /\ AllDigits(f)
\* %m : 1[0-2]|0[1-9]|[1-9]
MatchMonth(f) ==
    \/ /\ Len(f) = 2
       /\ \/ Char(f, 1) = "1" /\ Char(f, 2) \in {"0", "1", "2"}
          \/ Char(f, 1) = "0" /\ Char(f, 2) \in Digits \ {"0"}
    \/ Len(f) = 1 /\ Char(f, 1) \in Digits \ {"0"}
\* %d : 3[01]|[12]\d|0[1-9]|[1-9]| [1-9]
MatchDay(f) ==
    \/ /\ Len(f) = 2
       /\ \/ Char(f, 1) = "3" /\ Char(f, 2) \in {"0", "1"}
          \/ Char(f, 1) \in {"1", "2"} /\ Char(f, 2) \in Digits
          \/ Char(f, 1) \in {"0", " "} /\ Char(f, 2) \in Digits \ {"0"}
    \/ Len(f) = 1 /\ Char(f, 1) \in Digits \ {"0"}
DayValue(f) == IF Char(f, 1) = " " THEN DigitVal(Char(f, 2)) ELSE DecimalValue(f)
\* %y : 69..99 are 1969..1999, 00..68 are 2000..2068
Y2Value(f) == IF DecimalValue(f) <= 68 THEN 2000 + DecimalValue(f)
              ELSE 1900 + DecimalValue(f)

MakeDate(y, m, d) == IF ValidDate(y, m, d) THEN <<y, m, d>> ELSE NoDate

\* "%Y-%m-%d", f the fields between the "-"
IsoFields(f) ==
    IF Len(f) = 3 /\ MatchY4(f[1]) /\ MatchMonth(f[2]) /\ MatchDay(f[3])
    THEN MakeDate(DecimalValue(f[1]), DecimalValue(f[2]), DayValue(f[3]))
    ELSE NoDate
StrptimeIso(s) == IsoFields(SplitOn(s, "-"))
\* "%d/%m/%Y", f the fields between the "/"
Slash4Fields(f) ==
    IF Len(f) = 3 /\ MatchDay(f[1]) /\ MatchMonth(f[2]) /\ MatchY4(f[3])
    THEN MakeDate(DecimalValue(f[3]), DecimalValue(f[2]), DayValue(f[1]))
    ELSE NoDate
StrptimeSlash4(s) == Slash4Fields(SplitOn(s, "/"))
\* "%d/%m/%y", f the fields between the "/"
Slash2Fields(f) ==
    IF Len(f) = 3 /\ MatchDay(f[1]) /\ MatchMonth(f[2]) /\ MatchY2(f[3])
    THEN MakeDate(Y2Value(f[3]), DecimalValue(f[2]), DayValue(f[1]))
    ELSE NoDate
StrptimeSlash2(s) == Slash2Fields(SplitOn(s, "/"))

\* The loop over ("%Y-%m-%d", "%d/%m/%Y", "%d/%m/%y"): the first that parses.
FirstParsed(iso, slash4, slash2) ==
    IF iso # NoDate THEN iso
    ELSE IF slash4 # NoDate THEN slash4
    ELSE slash2
FormatChain(s) == FirstParsed(StrptimeIso(s), StrptimeSlash4(s), StrptimeSlash2(s))

\* database._parse_any_date
ParseAnyDateNeverFails(date_str) ==
    FirstParsed(FormatChain(date_str), <<1, 1, 1>>, <<1, 1, 1>>)
_parse_any_date(date_str) ==
    IF date_str = "" THEN NoDate ELSE FormatChain(date_str)

\* tuple comparison of two dates
DateLess(a, b) ==
    \/ a[1] < b[1]
    \/ a[1] = b[1] /\ a[2] < b[2]
    \/ a[1] = b[1] /\ a[2] = b[2] /\ a[3] < b[3]

----------------------------------------------------------------------------
(* Rows of sales_detail, as the dicts fetch_sales returns *)

DimKeys == {"customer", "customer_type", "city", "salesman", "item", "item_category"}

Rec(date, customer, salesman, item, amount) ==
    [invoice_date |-> date, invoice_no |-> "INV", customer |-> customer,
     salesman |-> salesman, item |-> item, qty |-> None, amount |-> amount,
     item_category |-> None, city |-> None, customer_type |-> None]

\* database.insert_rows: executemany appends the rows in order
InsertRowsReversed(table, new) ==
    table \o [i \in 1..Len(new) |-> new[Len(new) + 1 - i]]
insert_rows(table, new) == table \o new

\* database.clear_sales: DELETE FROM sales_detail
clear_sales(table) == <<>>

----------------------------------------------------------------------------
(* database.fetch_sales.  The result is the returned list, or the          *)
(* ValueError that strptime raises on a malformed bound.                   *)

Returned(v) == [raised |-> FALSE, value |-> v]
Raised(e) == [raised |-> TRUE, value |-> e]

\* lines 177-185: the record with parsed date d_val is kept
InRangeExclusiveEnd(d_val, start_d, end_d) ==
    /\ d_val # NoDate
    /\ ~(start_d # NoDate /\ DateLess(d_val, start_d))
    /\ ~(end_d # NoDate /\ ~DateLess(d_val, end_d))
InRange(d_val, start_d, end_d) ==
    /\ d_val # NoDate
    /\ ~(start_d # NoDate /\ DateLess(d_val, start_d))
    /\ ~(end_d # NoDate /\ DateLess(end_d, d_val))

\* lines 174-187, start_d and end_d the parsed bounds (NoDate: no bound)
Filtered(table, start_d, end_d) ==
    SelectSeq(table, LAMBDA r : InRange(_parse_any_date(r.invoice_date), start_d, end_d))

\* lines 167-172: a bound that is given and does not parse raises ValueError
BoundsParsed(table, start_date, end_date, start_d, end_d) ==
    IF \/ TruthyText(start_date) /\ start_d = NoDate
       \/ TruthyText(end_date) /\ end_d = NoDate
    THEN Raised("ValueError")
    ELSE Returned(Filtered(table, start_d, end_d))

fetch_sales(table, start_date, end_date) ==
    IF ~TruthyText(start_date) /\ ~TruthyText(end_date) THEN Returned(table)
    ELSE BoundsParsed(table, start_date, end_date,
                      IF TruthyText(start_date) THEN StrptimeIso(start_date[1]) ELSE NoDate,
                      IF TruthyText(end_date) THEN StrptimeIso(end_date[1]) ELSE NoDate)

----------------------------------------------------------------------------
(* sorted(..., reverse=True) and list.sort(reverse=True): a stable sort,   *)
(* so elements with equal keys keep their order.  The result is the        *)
(* sequence of positions of `keys`, largest key first.                     *)

RECURSIVE AscendingOrder(_)
AscendingOrder(keys) ==
    IF Len(keys) = 0 THEN <<>>
    ELSE LET n == Len(keys)
             prev == AscendingOrder(SubSeq(keys, 1, n - 1))
             cnt == Cardinality({j \in 1..(n - 1) : keys[j] <= keys[n]})
         IN SubSeq(prev, 1, cnt) \o <<n>> \o SubSeq(prev, cnt + 1, n - 1)

RECURSIVE TiesReversedOrder(_)
TiesReversedOrder(keys) ==
    IF Len(keys) = 0 THEN <<>>
    ELSE LET n == Len(keys)
             prev == TiesReversedOrder(SubSeq(keys, 1, n - 1))
             cnt == Cardinality({j \in 1..(n - 1) : keys[j] > keys[n]})
         IN SubSeq(prev, 1, cnt) \o <<n>> \o SubSeq(prev, cnt + 1, n - 1)

RECURSIVE StableOrderDesc(_)
StableOrderDesc(keys) ==
    IF Len(keys) = 0 THEN <<>>
    ELSE LET n == Len(keys)
             prev == StableOrderDesc(SubSeq(keys, 1, n - 1))
             cnt == Cardinality({j \in 1..(n - 1) : keys[j] >= keys[n]})
         IN SubSeq(prev, 1, cnt) \o <<n>> \o SubSeq(prev, cnt + 1, n - 1)

\* s[:n]
SliceKeepsAll(s, n) == s
SliceTo(s, n) ==
    IF n >= 0 THEN SubSeq(s, 1, IF n < Len(s) THEN n ELSE Len(s))
    ELSE SubSeq(s, 1, Len(s) + n)

----------------------------------------------------------------------------
(* main._aggregate_top_n *)

\* totals[label] += amount on an insertion-ordered dict of <<label, total>>
DictAddOverwrites(totals, label, amount) ==
    IF \E i \in 1..Len(totals) : totals[i][1] = label
    THEN LET i == CHOOSE i \in 1..Len(totals) : totals[i][1] = label
         IN [totals EXCEPT ![i] = <<label, amount>>]
    ELSE Append(totals, <<label, amount>>)
DictAdd(totals, label, amount) ==
    IF \E i \in 1..Len(totals) : totals[i][1] = label
    THEN LET i == CHOOSE i \in 1..Len(totals) : totals[i][1] = label
         IN [totals EXCEPT ![i] = <<label, @[2] + amount>>]
    ELSE Append(totals, <<label, amount>>)

\* the loop of lines 180-185
RECURSIVE GroupTotals(_, _)
GroupTotals(rs, key) ==
    IF Len(rs) = 0 THEN <<>>
    ELSE LET before == GroupTotals(SubSeq(rs, 1, Len(rs) - 1), key)
             r == rs[Len(rs)]
         IN IF ~TruthyText(r[key]) THEN before
            ELSE DictAdd(before, r[key][1], AmountOrZero(r.amount))

\* items put in the order of the positions `order`
Reordered(items, order) == [i \in 1..Len(items) |-> items[order[i]]]
\* sorted(totals.items(), key=lambda x: x[1], reverse=True)
SortedByTotal(totals) ==
    Reordered(totals, StableOrderDesc([i \in 1..Len(totals) |-> totals[i][2]]))
\* line 188
TopEntries(sorted_items) ==
    [i \in 1..Len(sorted_items) |->
        [label |-> sorted_items[i][1], amount |-> sorted_items[i][2]]]

_aggregate_top_n(rs, key, n) ==
    TopEntries(SliceTo(SortedByTotal(GroupTotals(rs, key)), n))

----------------------------------------------------------------------------
(* main._get_year_month, main._get_prev_year_month *)

NoYM == <<>>

\* return dt.year, dt.month
YearMonthOfDate(dt) == IF dt = NoDate THEN NoYM ELSE <<dt[1], dt[2]>>
GetYearMonthTwoFormats(date_str) ==
    IF date_str = "" THEN NoYM
    ELSE YearMonthOfDate(FirstParsed(StrptimeIso(date_str), StrptimeSlash4(date_str), NoDate))
_get_year_month(date_str) ==
    IF date_str = "" THEN NoYM ELSE YearMonthOfDate(FormatChain(date_str))

PrevYearMonthNoRollover(year, month) == <<year, month - 1>>
_get_prev_year_month(year, month) ==
    IF month = 1 THEN <<year - 1, 12>> ELSE <<year, month - 1>>

\* ym = _get_year_month(d) if d else None
YearMonthOf(r) == IF r.invoice_date = "" THEN NoYM ELSE _get_year_month(r.invoice_date)

\* tuple comparison of two (year, month) pairs
YMLess(a, b) == a[1] < b[1] \/ (a[1] = b[1] /\ a[2] < b[2])

\* max(all_months) for a non-empty list
MaxOfFirst(all_months) == all_months[1]
MaxYM(all_months) ==
    CHOOSE x \in {all_months[i] : i \in 1..Len(all_months)} :
        \A i \in 1..Len(all_months) : ~YMLess(x, all_months[i])

----------------------------------------------------------------------------
(* Iteration over a Python set of strings.  The order follows the hashes   *)
(* of the strings, which the process's hash seed decides: `members` lists  *)
(* the set, and the seed turns and flips the list.                         *)

Rotate(s, k) ==
    [i \in 1..Len(s) |-> s[((i - 1 + k) % Len(s)) + 1]]
Reverse(s) == [i \in 1..Len(s) |-> s[Len(s) + 1 - i]]
SetIterationOrder(members, seed) ==
    IF Len(members) = 0 THEN members
    ELSE IF seed % 2 = 0 THEN Rotate(members, seed \div 2)
    ELSE Reverse(Rotate(members, seed \div 2))

----------------------------------------------------------------------------
(* main._build_monthly_top *)

DictKeys(totals) == [i \in 1..Len(totals) |-> totals[i][1]]
DictHas(totals, label) == \E i \in 1..Len(totals) : totals[i][1] = label
\* totals.get(label, 0.0)
DictGet(totals, label) ==
    IF DictHas(totals, label)
    THEN totals[CHOOSE i \in 1..Len(totals) : totals[i][1] = label][2]
    ELSE 0

\* lines 236-249 for one record r with month ym, for one of the two months
MonthGroupStep(before, r, ym, dim_key, month) ==
    IF ym = NoYM THEN before
    ELSE IF ~TruthyText(r[dim_key]) THEN before
    ELSE IF ym = month THEN DictAdd(before, r[dim_key][1], AmountOrZero(r.amount))
    ELSE before

\* the loop of lines 235-249, for one of the two months
RECURSIVE MonthGroupTotals(_, _, _)
MonthGroupTotals(rs, dim_key, month) ==
    IF Len(rs) = 0 THEN <<>>
    ELSE MonthGroupStep(MonthGroupTotals(SubSeq(rs, 1, Len(rs) - 1), dim_key, month),
                        rs[Len(rs)], YearMonthOf(rs[Len(rs)]), dim_key, month)

\* labels = set(cur_totals.keys()) | set(prev_totals.keys()), listed
UnionMembers(cur_totals, prev_totals) ==
    DictKeys(cur_totals) \o
        SelectSeq(DictKeys(prev_totals), LAMBDA k : ~DictHas(cur_totals, k))

\* lines 252-262
DataList(labels, cur_totals, prev_totals) ==
    [i \in 1..Len(labels) |->
        [label |-> labels[i],
         current |-> DictGet(cur_totals, labels[i]),
         previous |-> DictGet(prev_totals, labels[i])]]

\* data_list.sort(key=lambda x: x["current"], reverse=True)
SortedByPrevious(data_list) ==
    Reordered(data_list,
              StableOrderDesc([i \in 1..Len(data_list) |-> data_list[i].previous]))
SortedByCurrent(data_list) ==
    Reordered(data_list,
              StableOrderDesc([i \in 1..Len(data_list) |-> data_list[i].current]))

\* lines 251-265
MonthlyTopOf(cur_totals, prev_totals, seed) ==
    SliceTo(SortedByCurrent(
                DataList(SetIterationOrder(UnionMembers(cur_totals, prev_totals), seed),
                         cur_totals, prev_totals)),
            10)

_build_monthly_top(rs, dim_key, base_year, base_month, seed) ==
    IF base_year = None \/ base_month = None THEN <<>>
    ELSE MonthlyTopOf(
             MonthGroupTotals(rs, dim_key, <<base_year[1], base_month[1]>>),
             MonthGroupTotals(rs, dim_key,
                              _get_prev_year_month(base_year[1], base_month[1])),
             seed)

----------------------------------------------------------------------------
(* main.build_dashboard_data *)

DefaultN == 10      \* n: int = 10 of _aggregate_top_n

RECURSIVE SumAmounts(_)
SumAmounts(rs) ==
    IF Len(rs) = 0 THEN 0
    ELSE SumAmounts(SubSeq(rs, 1, Len(rs) - 1)) + AmountOrZero(rs[Len(rs)].amount)

Abs(x) == IF x < 0 THEN -x ELSE x
RECURSIVE Gcd(_, _)
Gcd(a, b) == IF b = 0 THEN a ELSE Gcd(b, a % b)
\* The quotient num / den (den # 0) in lowest terms, the denominator positive.
Quotient(num, den) ==
    LET g == Gcd(Abs(num), Abs(den))
        sign == IF den < 0 THEN -1 ELSE 1
    IN <<(sign * num) \div g, Abs(den) \div g>>

\* customers_set, lines 281-283
CustomersSetCountsRecords(rs) ==
    {<<i, rs[i].customer[1]>> : i \in {j \in 1..Len(rs) : TruthyText(rs[j].customer)}}
CustomersSet(rs) ==
    {rs[i].customer[1] : i \in {j \in 1..Len(rs) : TruthyText(rs[j].customer)}}

\* all_months, lines 284-287
AllMonths(rs) ==
    LET dated == SelectSeq(rs, LAMBDA r : YearMonthOf(r) # NoYM)
    IN [i \in 1..Len(dated) |-> YearMonthOf(dated[i])]

\* the loop of lines 316-326, for one of the two months
MonthTotalOfAllRecords(rs, ym) == SumAmounts(rs)
MonthTotal(rs, ym) ==
    SumAmounts(SelectSeq(rs, LAMBDA r : YearMonthOf(r) # NoYM /\ YearMonthOf(r) = ym))

DiffPctDividesAlways(month_diff, prev_total) ==
    Some(Quotient(month_diff, IF prev_total # 0 THEN prev_total ELSE 1))
\* lines 331-334
DiffPct(month_diff, prev_total) ==
    IF prev_total # 0 THEN Some(Quotient(month_diff, prev_total)) ELSE None

\* lines 274-298: the totals and the six top-10 lists
SummaryTotals(rs, top10_customer) ==
    [total_sales |-> SumAmounts(rs),
     customer_count |-> Cardinality(CustomersSet(rs)),
     top_customer |-> IF Len(top10_customer) > 0 THEN top10_customer[1].label
                      ELSE "-",
     top10_customer |-> top10_customer,
     top10_customer_type |-> _aggregate_top_n(rs, "customer_type", DefaultN),
     top10_city |-> _aggregate_top_n(rs, "city", DefaultN),
     top10_salesman |-> _aggregate_top_n(rs, "salesman", DefaultN),
     top10_item |-> _aggregate_top_n(rs, "item", DefaultN),
     top10_category |-> _aggregate_top_n(rs, "item_category", DefaultN)]

\* lines 301-306: the month fields when no record has a parseable date.
\* base_month and prev_month are the locals (base_year, base_month) and
\* (prev_year, prev_month); they are no keys of the returned dict.
NoMonthSummary ==
    [base_month |-> NoYM, prev_month |-> NoYM,
     total_month_current |-> None, total_month_prev |-> None,
     total_month_diff |-> None, total_month_diff_pct |-> None,
     item_mom_top10 |-> <<>>, salesman_mom_top10 |-> <<>>]

\* lines 328-339
MonthFields(rs, seed, base, prev, cur_total, prev_total) ==
    [base_month |-> base, prev_month |-> prev,
     total_month_current |-> Some(cur_total),
     total_month_prev |-> Some(prev_total),
     total_month_diff |-> Some(cur_total - prev_total),
     total_month_diff_pct |-> DiffPct(cur_total - prev_total, prev_total),
     item_mom_top10 |->
         _build_monthly_top(rs, "item", Some(base[1]), Some(base[2]), seed),
     salesman_mom_top10 |->
         _build_monthly_top(rs, "salesman", Some(base[1]), Some(base[2]), seed)]

\* lines 308-326
MonthSummaryFrom(rs, seed, base, prev) ==
    MonthFields(rs, seed, base, prev, MonthTotal(rs, base), MonthTotal(rs, prev))
MonthSummaryOf(rs, seed, base) ==
    MonthSummaryFrom(rs, seed, base, _get_prev_year_month(base[1], base[2]))
MonthSummary(rs, seed, all_months) ==
    IF Len(all_months) > 0 THEN MonthSummaryOf(rs, seed, MaxYM(all_months))
    ELSE NoMonthSummary

build_dashboard_data(rs, seed) ==
    SummaryTotals(rs, _aggregate_top_n(rs, "customer", DefaultN))
        @@ MonthSummary(rs, seed, AllMonths(rs))

----------------------------------------------------------------------------
(* parser_accurate_html: str.strip, str.split, int, MONTH_MAP *)

Whitespace == {" ", "\t", "\n"}

RECURSIVE LStrip(_)
LStrip(s) ==
    IF Len(s) > 0 /\ Char(s, 1) \in Whitespace THEN LStrip(SubSeq(s, 2, Len(s))) ELSE s
RECURSIVE RStrip(_)
RStrip(s) ==
    IF Len(s) > 0 /\ Char(s, Len(s)) \in Whitespace
    THEN RStrip(SubSeq(s, 1, Len(s) - 1)) ELSE s
StripOneEach(s) ==
    IF Len(s) = 0 THEN s
    ELSE IF Char(s, 1) \in Whitespace
         THEN (IF Len(s) > 1 /\ Char(s, Len(s)) \in Whitespace
               THEN SubSeq(s, 2, Len(s) - 1) ELSE SubSeq(s, 2, Len(s)))
         ELSE IF Char(s, Len(s)) \in Whitespace THEN SubSeq(s, 1, Len(s) - 1) ELSE s
Strip(s) == LStrip(RStrip(s))

\* text.split(): the maximal runs of non-whitespace characters
RECURSIVE SplitWhitespace(_)
SplitWhitespace(s) ==
    LET t == LStrip(s) IN
    IF Len(t) = 0 THEN <<>>
    ELSE LET stops == {i \in 1..Len(t) : Char(t, i) \in Whitespace}
             k == IF stops = {} THEN Len(t) + 1
                  ELSE CHOOSE i \in stops : \A j \in stops : i <= j
         IN <<SubSeq(t, 1, k - 1)>> \o SplitWhitespace(SubSeq(t, k, Len(t)))

\* str.upper on ASCII letters
UpperChar(c) ==
    CASE c = "a" -> "A" [] c = "b" -> "B" [] c = "c" -> "C" [] c = "d" -> "D"
      [] c = "e" -> "E" [] c = "f" -> "F" [] c = "g" -> "G" [] c = "h" -> "H"
      [] c = "i" -> "I" [] c = "j" -> "J" [] c = "k" -> "K" [] c = "l" -> "L"
      [] c = "m" -> "M" [] c = "n" -> "N" [] c = "o" -> "O" [] c = "p" -> "P"
      [] c = "q" -> "Q" [] c = "r" -> "R" [] c = "s" -> "S" [] c = "t" -> "T"
      [] c = "u" -> "U" [] c = "v" -> "V" [] c = "w" -> "W" [] c = "x" -> "X"
      [] c = "y" -> "Y" [] c = "z" -> "Z" [] OTHER -> c
RECURSIVE Upper(_)
Upper(s) == IF Len(s) = 0 THEN "" ELSE UpperChar(Char(s, 1)) \o Upper(SubSeq(s, 2, Len(s)))

\* MONTH_MAP.get(mon_key); 0 stands for None
MONTH_MAP(mon_key) ==
    CASE mon_key = "JAN" -> 1 [] mon_key = "FEB" -> 2 [] mon_key = "MAR" -> 3
      [] mon_key = "APR" -> 4 [] mon_key = "MEI" -> 5 [] mon_key = "MAY" -> 5
      [] mon_key = "JUN" -> 6 [] mon_key = "JUL" -> 7 [] mon_key = "AUG" -> 8
      [] mon_key = "AGU" -> 8 [] mon_key = "SEP" -> 9 [] mon_key = "OCT" -> 10
      [] mon_key = "OKT" -> 10 [] mon_key = "NOV" -> 11 [] mon_key = "DEC" -> 12
      [] mon_key = "DES" -> 12 [] OTHER -> 0

\* int(s) for a text without surrounding whitespace: an optional sign, then
\* digits, single underscores allowed between digits.  None when int raises.
DigitsWithUnderscores(s) ==
    /\ Len(s) > 0
    /\ \A i \in 1..Len(s) : Char(s, i) \in Digits \cup {"_"}
    /\ Char(s, 1) # "_" /\ Char(s, Len(s)) # "_"
    /\ \A i \in 1..(Len(s) - 1) : ~(Char(s, i) = "_" /\ Char(s, i + 1) = "_")
RECURSIVE DropUnderscores(_)
DropUnderscores(s) ==
    IF Len(s) = 0 THEN ""
    ELSE (IF Char(s, 1) = "_" THEN "" ELSE Char(s, 1)) \o
         DropUnderscores(SubSeq(s, 2, Len(s)))
PyInt(s) ==
    LET signed == Len(s) > 0 /\ Char(s, 1) \in {"+", "-"}
        body == IF signed THEN SubSeq(s, 2, Len(s)) ELSE s
    IN IF ~DigitsWithUnderscores(body) THEN None
       ELSE IF signed /\ Char(s, 1) = "-"
            THEN Some(0 - DecimalValue(DropUnderscores(body)))
            ELSE Some(DecimalValue(DropUnderscores(body)))

\* dt.strftime("%Y-%m-%d") with glibc: the year is not padded
TwoDigits(n) == IF n < 10 THEN "0" \o ToString(n) ELSE ToString(n)
Strftime(y, m, d) == ToString(y) \o "-" \o TwoDigits(m) \o "-" \o TwoDigits(d)

----------------------------------------------------------------------------
(* parser_accurate_html._parse_date, _parse_number *)

\* s[:n]
Prefix(s, n) == SubSeq(s, 1, IF Len(s) < n THEN Len(s) ELSE n)

ParseDateFirstOfMonth(text0) ==
    LET text == Strip(text0)
        parts == SplitWhitespace(text)
    IN IF text = "" \/ Len(parts) # 3 THEN text
       ELSE IF MONTH_MAP(Upper(Prefix(parts[2], 3))) = 0 THEN text
       ELSE IF PyInt(parts[1]) = None \/ PyInt(parts[3]) = None THEN text
       ELSE IF ~ValidDate(PyInt(parts[3])[1], MONTH_MAP(Upper(Prefix(parts[2], 3))),
                          PyInt(parts[1])[1]) THEN text
       ELSE Strftime(PyInt(parts[3])[1], MONTH_MAP(Upper(Prefix(parts[2], 3))), 1)

ParseDateEmptyOnFailure(text0) ==
    LET text == Strip(text0)
        parts == SplitWhitespace(text)
    IN IF text = "" THEN ""
       ELSE IF Len(parts) # 3 THEN ""
       ELSE IF MONTH_MAP(Upper(Prefix(parts[2], 3))) = 0 THEN ""
       ELSE IF PyInt(parts[1]) = None \/ PyInt(parts[3]) = None THEN ""
       ELSE IF ~ValidDate(PyInt(parts[3])[1], MONTH_MAP(Upper(Prefix(parts[2], 3))),
                          PyInt(parts[1])[1]) THEN ""
       ELSE Strftime(PyInt(parts[3])[1], MONTH_MAP(Upper(Prefix(parts[2], 3))),
                     PyInt(parts[1])[1])
ParseDateReturnsUnstripped(text0) ==
    LET text == Strip(text0)
        parts == SplitWhitespace(text)
    IN IF text = "" THEN text0
       ELSE IF Len(parts) # 3 THEN text0
       ELSE IF MONTH_MAP(Upper(Prefix(parts[2], 3))) = 0 THEN text0
       ELSE IF PyInt(parts[1]) = None \/ PyInt(parts[3]) = None THEN text0
       ELSE IF ~ValidDate(PyInt(parts[3])[1], MONTH_MAP(Upper(Prefix(parts[2], 3))),
                          PyInt(parts[1])[1]) THEN text0
       ELSE Strftime(PyInt(parts[3])[1], MONTH_MAP(Upper(Prefix(parts[2], 3))),
                     PyInt(parts[1])[1])
_parse_date(text0) ==
    LET text == Strip(text0)
        parts == SplitWhitespace(text)
    IN IF text = "" THEN text
       ELSE IF Len(parts) # 3 THEN text
       ELSE LET mon_key == Upper(Prefix(parts[2], 3))
                month == MONTH_MAP(mon_key)
                day == PyInt(parts[1])
                year == PyInt(parts[3])
            IN IF month = 0 THEN text
               ELSE IF day = None \/ year = None THEN text
               ELSE IF ~ValidDate(year[1], month, day[1]) THEN text
               ELSE Strftime(year[1], month, day[1])

\* re.sub(r"[^0-9-]", "", text)
RECURSIVE KeepDigitsAndMinus(_)
KeepDigitsAndMinus(s) ==
    IF Len(s) = 0 THEN ""
    ELSE (IF Char(s, 1) \in Digits \cup {"-"} THEN Char(s, 1) ELSE "") \o
         KeepDigitsAndMinus(SubSeq(s, 2, Len(s)))

ParseNumberLoneMinusIsZero(text0) ==
    IF Strip(text0) = "" THEN None
    ELSE IF KeepDigitsAndMinus(Strip(text0)) \in {"", "-"} THEN Some(0)
    ELSE IF AllDigits(KeepDigitsAndMinus(Strip(text0)))
         THEN Some(DecimalValue(KeepDigitsAndMinus(Strip(text0))))
    ELSE None
_parse_number(text0) ==
    LET text == Strip(text0)
        cleaned == KeepDigitsAndMinus(text)
    IN IF text = "" THEN None
       ELSE IF cleaned = "" \/ cleaned = "-" THEN None
       \* float(cleaned): digits with at most one leading minus sign
       ELSE IF AllDigits(cleaned) THEN Some(DecimalValue(cleaned))
       ELSE IF Char(cleaned, 1) = "-" /\ AllDigits(SubSeq(cleaned, 2, Len(cleaned)))
            THEN Some(0 - DecimalValue(SubSeq(cleaned, 2, Len(cleaned))))
       ELSE None

----------------------------------------------------------------------------
(* parser_accurate_html.parse_html_content.  A document is the sequence of *)
(* its <tr> rows, a row the sequence of the texts of its <td> cells;       *)
(* tds[k] of the code is cell k + 1.                                       *)

MinCells == 38      \* if len(tds) < 38: continue

\* tds[k].get_text(strip=True)
CellText(tds, k) == Strip(tds[k + 1])
EmptyToNone(t) == IF t = "" THEN None ELSE Some(t)

RowAcceptedKeepsHeader(tds) ==
    /\ Len(tds) >= MinCells
    /\ CellText(tds, 1) # ""
RowAccepted(tds) ==
    /\ Len(tds) >= MinCells
    /\ CellText(tds, 1) # ""
    /\ CellText(tds, 1) # "Date"

SalesRow(tds) ==
    [invoice_date |-> _parse_date(CellText(tds, 1)),
     invoice_no |-> CellText(tds, 5),
     customer |-> Some(CellText(tds, 9)),
     salesman |-> Some(CellText(tds, 13)),
     item |-> Some(CellText(tds, 17)),
     qty |-> _parse_number(CellText(tds, 21)),
     amount |-> _parse_number(CellText(tds, 25)),
     item_category |-> EmptyToNone(IF Len(tds) > 29 THEN CellText(tds, 29) ELSE ""),
     city |-> EmptyToNone(IF Len(tds) > 33 THEN CellText(tds, 33) ELSE ""),
     customer_type |-> EmptyToNone(IF Len(tds) > 37 THEN CellText(tds, 37) ELSE "")]

RECURSIVE parse_html_content(_)
parse_html_content(doc) ==
    IF Len(doc) = 0 THEN <<>>
    ELSE LET before == parse_html_content(SubSeq(doc, 1, Len(doc) - 1))
             tds == doc[Len(doc)]
         IN IF RowAccepted(tds) THEN Append(before, SalesRow(tds)) ELSE before

----------------------------------------------------------------------------
(* The operations as actions.  rows, args and out belong to one call: each *)
(* action writes them afresh.                                              *)

NoArgs == <<>>
NoResult == <<>>

\* No replacement of the stored rows is under way.  before and after are the
\* complete row sets between which the latest replacement moves the table;
\* only the steps of a replacement write them.
NotReplacing(table) ==
    [pc |-> "idle", records |-> <<>>, before |-> table, after |-> table]

\* insert_rows(conn, rows)
InsertRows(inputs) ==
    \E new \in inputs :
        /\ Len(sales_detail) + Len(new) <= MaxStored
        /\ sales_detail' = insert_rows(sales_detail, new)
        /\ rows' = new
        /\ op' = "insert_rows"
        /\ args' = NoArgs
        /\ out' = NoResult
        /\ UNCHANGED <<hashseed, access_codes, replacing>>

\* clear_sales(conn)
ClearSales ==
    /\ sales_detail # <<>>
    /\ sales_detail' = clear_sales(sales_detail)
    /\ rows' = <<>>
    /\ op' = "clear_sales"
    /\ args' = NoArgs
    /\ out' = NoResult
    /\ UNCHANGED <<hashseed, access_codes, replacing>>

\* fetch_sales(conn, start_date, end_date)
FetchSales(bounds) ==
    \E start_date \in bounds, end_date \in bounds :
        LET res == fetch_sales(sales_detail, start_date, end_date) IN
        /\ op' = "fetch_sales"
        /\ args' = [start_date |-> start_date, end_date |-> end_date]
        /\ out' = res
        /\ rows' = IF res.raised THEN <<>> ELSE res.value
        /\ UNCHANGED <<sales_detail, hashseed, access_codes, replacing>>

\* parse_html_content(html)
ParseHtmlContent(docs) ==
    \E doc \in docs :
        /\ op' = "parse_html_content"
        /\ args' = [html |-> doc]
        /\ rows' = parse_html_content(doc)
        /\ out' = NoResult
        /\ UNCHANGED <<sales_detail, hashseed, access_codes, replacing>>

\* _aggregate_top_n(rows, key, n)
AggregateTopNDrainsRows ==
    \E key \in DimKeys, n \in 0..MaxN :
        /\ op' = "_aggregate_top_n"
        /\ args' = [key |-> key, n |-> n]
        /\ out' = _aggregate_top_n(rows, key, n)
        /\ rows' = <<>>
        /\ UNCHANGED <<sales_detail, hashseed, access_codes, replacing>>
AggregateTopN ==
    \E key \in DimKeys, n \in 0..MaxN :
        /\ op' = "_aggregate_top_n"
        /\ args' = [key |-> key, n |-> n]
        /\ out' = _aggregate_top_n(rows, key, n)
        /\ UNCHANGED <<sales_detail, rows, hashseed, access_codes, replacing>>

\* _build_monthly_top(rows, dim_key, base_year, base_month)
BuildMonthlyTop(months) ==
    \E dim_key \in {"item", "salesman"}, base \in months :
        /\ op' = "_build_monthly_top"
        /\ args' = [dim_key |-> dim_key, base_year |-> base[1], base_month |-> base[2]]
        /\ out' = _build_monthly_top(rows, dim_key, base[1], base[2], hashseed)
        /\ UNCHANGED <<sales_detail, rows, hashseed, access_codes, replacing>>

\* build_dashboard_data(rows)
BuildDashboardData ==
    /\ op' = "build_dashboard_data"
    /\ args' = NoArgs
    /\ out' = build_dashboard_data(rows, hashseed)
    /\ UNCHANGED <<sales_detail, rows, hashseed, access_codes, replacing>>

SeqsUpTo(S, n) == UNION {[1..k -> S] : k \in 0..n}

----------------------------------------------------------------------------
(* Query filter: rows are stored and cleared, and fetched under bounds.    *)

StoredDates ==
    {"2025-12-01", "15/01/2026", "31/12/25", "01 Des 2025", "2025-02-30", "", "01/01/69"}
FilterInputs == {<<Rec(d, Some("A"), Some("S"), Some("I"), Some(10))>> : d \in StoredDates}
FilterBounds == {None, Some(""), Some("2025-12-31"), Some("2026-01-15"), Some("2026-1-32")}

InitFilter ==
    /\ sales_detail = <<>>
    /\ rows = <<>>
    /\ op = "init"
    /\ args = NoArgs
    /\ out = NoResult
    /\ hashseed = 0
    /\ access_codes = <<>>
    /\ replacing = NotReplacing(sales_detail)

NextFilter ==
    \/ InsertRows(FilterInputs)
    \/ ClearSales
    \/ FetchSales(FilterBounds)

SpecFilter == InitFilter /\ [][NextFilter]_vars

\* invoice_date parses under none of the three formats
Unparsed(r) ==
    /\ StrptimeIso(r.invoice_date) = NoDate
    /\ StrptimeSlash4(r.invoice_date) = NoDate
    /\ StrptimeSlash2(r.invoice_date) = NoDate
Elements(s) == {s[i] : i \in 1..Len(s)}
Given(bound) == bound # None /\ bound # Some("")

\* C1: fetch_sales with neither bound given returns every stored record, the
\* ones with an unparsed invoice_date included; with a bound given, no record
\* with an unparsed invoice_date is in the result.
C1_FilterUnparsed ==
    (op = "fetch_sales" /\ ~out.raised) =>
        IF ~Given(args.start_date) /\ ~Given(args.end_date)
        THEN out.value = sales_detail
        ELSE \A r \in Elements(out.value) : ~Unparsed(r)

C1_Witness ==
    /\ op = "fetch_sales" /\ ~out.raised
    /\ Given(args.start_date)
    /\ \E r \in Elements(sales_detail) : Unparsed(r)
    /\ out.value # <<>>

\* a date as one number, ordered as the calendar is
DayNumber(d) == d[1] * 10000 + d[2] * 100 + d[3]
\* the record with parsed date d lies within the bounds, a bound that is not
\* given imposing nothing
WithinBounds(d, start_date, end_date) ==
    /\ d # NoDate
    /\ Given(start_date) => DayNumber(StrptimeIso(start_date[1])) <= DayNumber(d)
    /\ Given(end_date) => DayNumber(d) <= DayNumber(StrptimeIso(end_date[1]))
OnBound(d, bound) ==
    d # NoDate /\ Given(bound) /\ DayNumber(d) = DayNumber(StrptimeIso(bound[1]))

\* C11: with a bound given, fetch_sales returns exactly the stored records
\* whose date parses and lies between the bounds, both ends included, in
\* their stored order; a record dated on a bound is returned when the other
\* bound admits it.
C11_FilterInclusiveOrdered ==
    (op = "fetch_sales" /\ ~out.raised /\ (Given(args.start_date) \/ Given(args.end_date))) =>
        /\ out.value = SelectSeq(sales_detail, LAMBDA r :
               WithinBounds(_parse_any_date(r.invoice_date), args.start_date, args.end_date))
        /\ \A r \in Elements(sales_detail) :
               (/\ \/ OnBound(_parse_any_date(r.invoice_date), args.start_date)
                   \/ OnBound(_parse_any_date(r.invoice_date), args.end_date)
                /\ WithinBounds(_parse_any_date(r.invoice_date), args.start_date, args.end_date))
               => r \in Elements(out.value)

C11_Witness ==
    /\ op = "fetch_sales" /\ ~out.raised
    /\ args.start_date = Some("2025-12-31") /\ args.end_date = Some("2026-01-15")
    /\ Len(sales_detail) = 2
    /\ sales_detail[1].invoice_date = "15/01/2026"
    /\ sales_detail[2].invoice_date = "31/12/25"
    /\ out.value = sales_detail

\* C19: no operation ends in an error; fetch_sales returns a list for every
\* start and end text, a malformed one included.
C19_NoOperationRaises ==
    op = "fetch_sales" => ~out.raised

\* the filter and the aggregation read the text alike: both fail, or both
\* succeed with the same year and month
ChainsAgree(d_val, ym) ==
    IF d_val = NoDate THEN ym = NoYM ELSE ym = <<d_val[1], d_val[2]>>

----------------------------------------------------------------------------
(* Top-N by dimension: _aggregate_top_n applied to a record collection.    *)

MaxRows == 3        \* records in a collection handed to the aggregation

TopLabels == {None, Some(""), Some("A"), Some("B"), Some("C")}
TopAmounts == {None, Some(5)}
\* customer and item vary; the four other dimensions are absent
TopRecs ==
    {Rec("2025-12-01", l, None, l, a) : l \in TopLabels, a \in TopAmounts}

InitTop ==
    /\ sales_detail = <<>>
    /\ rows \in SeqsUpTo(TopRecs, MaxRows)
    /\ op = "init"
    /\ args = NoArgs
    /\ out = NoResult
    /\ hashseed = 0
    /\ access_codes = <<>>
    /\ replacing = NotReplacing(sales_detail)

NextTop == AggregateTopN

SpecTop == InitTop /\ [][NextTop]_vars

\* The records of rs that carry label l in dimension key, the labels of rs,
\* the sum of a label's amounts and the place a label is first met.
Carrying(rs, key, l) == {i \in 1..Len(rs) : rs[i][key] = Some(l)}
LabelsOf(rs, key) == {rs[i][key][1] : i \in {j \in 1..Len(rs) : rs[j][key] # None}} \ {""}
RECURSIVE SumOver(_, _)
SumOver(rs, idx) ==
    IF idx = {} THEN 0
    ELSE LET i == CHOOSE i \in idx : TRUE
         IN AmountOrZero(rs[i].amount) + SumOver(rs, idx \ {i})
LabelSum(rs, key, l) == SumOver(rs, Carrying(rs, key, l))
FirstMet(rs, key, l) == CHOOSE i \in Carrying(rs, key, l) : \A j \in Carrying(rs, key, l) : i <= j
OutLabels == {out[i].label : i \in 1..Len(out)}

\* C2: the list _aggregate_top_n returns has at most n entries and its
\* amounts never increase from one entry to the next.
C2_TopNBoundedSorted ==
    op = "_aggregate_top_n" =>
        /\ Len(out) <= args.n
        /\ \A i \in 1..Len(out), j \in 1..Len(out) :
               i < j => out[i].amount >= out[j].amount

C2_Witness ==
    /\ op = "_aggregate_top_n"
    /\ Cardinality(LabelsOf(rows, args.key)) > args.n
    /\ Len(out) = 2
    /\ out[1].amount > out[2].amount
    /\ rows[1][args.key] = Some(out[2].label)

\* C7: records without a value for the dimension form no group; every entry's
\* amount is the sum of the amounts (absent as 0) of all records carrying its
\* label; the labels are pairwise distinct; and when there are at most n
\* distinct labels every one of them is in the result.
C7_TopNGroupSums ==
    op = "_aggregate_top_n" =>
        /\ \A i \in 1..Len(out) :
               /\ out[i].label \in LabelsOf(rows, args.key)
               /\ out[i].amount = LabelSum(rows, args.key, out[i].label)
        /\ \A i \in 1..Len(out), j \in 1..Len(out) :
               i # j => out[i].label # out[j].label
        /\ Cardinality(LabelsOf(rows, args.key)) <= args.n =>
               OutLabels = LabelsOf(rows, args.key)

C7_Witness ==
    /\ op = "_aggregate_top_n"
    /\ \E i \in 1..Len(rows) : rows[i][args.key] = None /\ rows[i].amount # None
    /\ \E i \in 1..Len(rows), j \in 1..Len(rows) :
           /\ i # j
           /\ rows[i][args.key] = rows[j][args.key]
           /\ rows[i].amount = None /\ rows[j].amount = Some(5)
    /\ Len(out) = 1
    /\ out[1].amount = 5

\* C8: of two groups with equal sums the one whose label is met first in the
\* records comes first, and when the cut to n falls inside a tie the groups
\* met first are the ones kept.
C8_TopNTieBreak ==
    op = "_aggregate_top_n" =>
        /\ \A i \in 1..Len(out), j \in 1..Len(out) :
               (i < j /\ out[i].amount = out[j].amount) =>
                   FirstMet(rows, args.key, out[i].label)
                       < FirstMet(rows, args.key, out[j].label)
        /\ \A i \in 1..Len(out) :
               \A l \in LabelsOf(rows, args.key) \ OutLabels :
                   LabelSum(rows, args.key, l) = out[i].amount =>
                       FirstMet(rows, args.key, out[i].label)
                           < FirstMet(rows, args.key, l)

C8_Witness ==
    /\ op = "_aggregate_top_n"
    /\ Len(out) = 2
    /\ out[1].amount > out[2].amount
    /\ \E l \in LabelsOf(rows, args.key) \ OutLabels :
           /\ LabelSum(rows, args.key, l) = out[2].amount
           /\ FirstMet(rows, args.key, out[2].label) < FirstMet(rows, args.key, l)
           /\ FirstMet(rows, args.key, l) < FirstMet(rows, args.key, out[1].label)

----------------------------------------------------------------------------
(* Dashboard summary: build_dashboard_data applied to a record collection. *)

\* January 2026, December 2025 (two-digit year), November 2025, and a text
\* that no format of the chain parses
DashDates == {"2026-01-02", "31/12/25", "2025-11-30", "01 Des 2025"}
DashAmounts == {None, Some(5), Some(-5)}
DashCustomer(d) ==
    CASE d = "2026-01-02" -> Some("A")
      [] d = "31/12/25" -> Some("B")
      [] d = "2025-11-30" -> None
      [] OTHER -> Some("-")
DashRecs ==
    {Rec(d, DashCustomer(d), None, Some("I"), a) : d \in DashDates, a \in DashAmounts}

InitDash ==
    /\ sales_detail = <<>>
    /\ rows \in SeqsUpTo(DashRecs, MaxRows)
    /\ op = "init"
    /\ args = NoArgs
    /\ out = NoResult
    /\ hashseed = 0
    /\ access_codes = <<>>
    /\ replacing = NotReplacing(sales_detail)

NextDash == BuildDashboardData

SpecDash == InitDash /\ [][NextDash]_vars

\* The (year, month) pairs of the records with a parseable date, and the
\* number of a month counted from year 0.
MonthsOf(rs) == {YearMonthOf(rs[i]) : i \in 1..Len(rs)} \ {NoYM}
MonthIndex(ym) == 12 * ym[1] + ym[2] - 1
InMonth(rs, ym) == {i \in 1..Len(rs) : YearMonthOf(rs[i]) # NoYM /\ YearMonthOf(rs[i]) = ym}

\* C3: with a parseable date present, the current month is the largest
\* (year, month) of the records and the previous month is the calendar month
\* before it: records in (2025,12) and (2026,1) only give (2026,1), (2025,12).
C3_CurrentAndPreviousMonth ==
    (op = "build_dashboard_data" /\ MonthsOf(rows) # {}) =>
        /\ out.base_month \in MonthsOf(rows)
        /\ \A ym \in MonthsOf(rows) : MonthIndex(ym) <= MonthIndex(out.base_month)
        /\ out.prev_month[2] \in 1..12
        /\ MonthIndex(out.prev_month) = MonthIndex(out.base_month) - 1
        /\ MonthsOf(rows) = {<<2025, 12>>, <<2026, 1>>} =>
               out.base_month = <<2026, 1>> /\ out.prev_month = <<2025, 12>>

C3_Witness ==
    /\ op = "build_dashboard_data"
    /\ MonthsOf(rows) = {<<2025, 12>>, <<2026, 1>>}
    /\ YearMonthOf(rows[1]) = <<2026, 1>>
    /\ YearMonthOf(rows[2]) = <<2025, 12>>
    /\ out.prev_month = <<2025, 12>>

\* C4: when the previous-month total is 0 the percentage is None; otherwise
\* it is the quotient (current - previous) / previous.
C4_DiffPctDefinedIffPrevNonZero ==
    (op = "build_dashboard_data" /\ out.total_month_prev # None) =>
        LET cur == out.total_month_current[1]
            prev == out.total_month_prev[1]
            pct == out.total_month_diff_pct
        IN IF prev = 0 THEN pct = None
           ELSE /\ pct # None
                /\ pct[1][2] > 0
                /\ pct[1][1] * prev = (cur - prev) * pct[1][2]

C4_Witness ==
    /\ op = "build_dashboard_data"
    /\ out.total_month_prev = Some(0)
    /\ InMonth(rows, out.prev_month) # {}
    /\ out.total_month_current = Some(5)
    /\ out.total_month_diff_pct = None

\* C5: the current-month total is the sum of the amounts (absent as 0) of
\* exactly the records of the current month, the previous-month total the same
\* for the previous month, the difference is current minus previous, and a
\* record without a parseable date counts in neither.
C5_MonthTotals ==
    (op = "build_dashboard_data" /\ MonthsOf(rows) # {}) =>
        /\ out.total_month_current = Some(SumOver(rows, InMonth(rows, out.base_month)))
        /\ out.total_month_prev = Some(SumOver(rows, InMonth(rows, out.prev_month)))
        /\ out.total_month_diff =
               Some(out.total_month_current[1] - out.total_month_prev[1])

C5_Witness ==
    /\ op = "build_dashboard_data"
    /\ Len(rows) = 3
    /\ Unparsed(rows[1]) /\ rows[1].amount = Some(5)
    /\ InMonth(rows, out.base_month) = {2}
    /\ InMonth(rows, out.prev_month) = {3}
    /\ out.total_month_current = Some(-5)
    /\ out.total_month_prev = Some(5)
    /\ out.total_month_diff = Some(-10)

AllOf(rs) == 1..Len(rs)

\* C10 as claimed: total_sales is the sum of all amounts, customer_count the
\* number of distinct customers, top_customer the first top-customer label,
\* and top_customer is "-" exactly when no record carries a customer.
C10_SentinelExactlyWhenNoCustomer ==
    op = "build_dashboard_data" =>
        /\ out.total_sales = SumOver(rows, AllOf(rows))
        /\ out.customer_count = Cardinality(LabelsOf(rows, "customer"))
        /\ out.top10_customer # <<>> => out.top_customer = out.top10_customer[1].label
        /\ out.top_customer = "-" <=> LabelsOf(rows, "customer") = {}

\* C10, amended: total_sales is the sum of all amounts (absent as 0, records
\* with unparseable dates included), customer_count the number of distinct
\* non-absent customers, top_customer the label of the first entry of the
\* top-10-by-customer list when a record carries a customer, and "-" when
\* none does.
C10_SummaryTotals ==
    op = "build_dashboard_data" =>
        /\ out.total_sales = SumOver(rows, AllOf(rows))
        /\ out.customer_count = Cardinality(LabelsOf(rows, "customer"))
        /\ IF LabelsOf(rows, "customer") = {} THEN out.top_customer = "-"
           ELSE out.top_customer = out.top10_customer[1].label

C10_Witness ==
    /\ op = "build_dashboard_data"
    /\ Len(rows) = 3
    /\ Unparsed(rows[1]) /\ rows[1].amount = Some(5)
    /\ rows[2].customer = None /\ rows[2].amount = Some(5)
    /\ rows[3].customer = Some("A")
    /\ out.customer_count = 2
    /\ out.total_sales = 15
    /\ out.top_customer = "-"

----------------------------------------------------------------------------
(* The pipeline: a report is parsed, its records are stored, fetched back  *)
(* and summarised.  The functions are called with the arguments their      *)
(* definitions take; the calls the routes of main.py make are the actions  *)
(* Upload, GetSales and GetDashboardData further down.                     *)

MaxDocRows == 2     \* <tr> rows in an uploaded report
RowCells == 41      \* a data row of the export has about 41 columns

\* A data row of the export: the named cells at their columns, the rest empty.
DataRow(date, customer, amount) ==
    [k \in 1..RowCells |->
        CASE k = 2 -> date
          [] k = 6 -> "SI-1"
          [] k = 10 -> customer
          [] k = 14 -> "S"
          [] k = 18 -> "I"
          [] k = 22 -> "1"
          [] k = 26 -> amount
          [] OTHER -> ""]

\* the header row, the two example rows and a row without an amount
ReportRows ==
    {DataRow("Date", "Customer", "Amount"),
     DataRow("01 Des 2025", "A", "100,000"),
     DataRow("02 Jan 2026", "B", "50,000"),
     DataRow("15/01/2026", "A", "-")}
Reports == SeqsUpTo(ReportRows, MaxDocRows)

Init ==
    /\ sales_detail = <<>>
    /\ rows = <<>>
    /\ op = "init"
    /\ args = NoArgs
    /\ out = NoResult
    /\ hashseed = 0
    /\ access_codes = <<>>
    /\ replacing = NotReplacing(sales_detail)

\* insert_rows(conn, [r.to_tuple() for r in records]) on the parsed records
InsertParsed ==
    /\ op = "parse_html_content"
    /\ InsertRows({rows})

Next ==
    \/ ParseHtmlContent(Reports)
    \/ InsertParsed
    \/ ClearSales
    \/ FetchSales({None, Some("2025-12-31")})
    \/ BuildDashboardData

Spec == Init /\ [][Next]_vars

ExampleReport ==
    <<DataRow("01 Des 2025", "A", "100,000"), DataRow("02 Jan 2026", "B", "50,000")>>
\* the two canonical records, the second dated second_date
ExampleRecords(second_date) ==
    <<[Rec("2025-12-01", Some("A"), Some("S"), Some("I"), Some(100000))
           EXCEPT !.invoice_no = "SI-1", !.qty = Some(1)],
      [Rec(second_date, Some("B"), Some("S"), Some("I"), Some(50000))
           EXCEPT !.invoice_no = "SI-1", !.qty = Some(1)]>>
ExampleTotals ==
    /\ out.total_month_current = Some(50000)
    /\ out.total_month_prev = Some(100000)
    /\ out.total_month_diff = Some(-50000)
    /\ out.total_month_diff_pct = Some(<<-1, 2>>)

\* C6 as claimed: the two example rows become two records dated 2025-12-01
\* and 2026-01-01, and their summary reports 50000, 100000, -50000 and -0.5.
C6_EndToEndAsClaimed ==
    /\ (op = "parse_html_content" /\ args.html = ExampleReport) =>
           rows = ExampleRecords("2026-01-01")
    /\ (op = "build_dashboard_data" /\ rows = ExampleRecords("2026-01-01")) =>
           ExampleTotals

\* C6, amended: the two example rows become two records dated 2025-12-01 and
\* 2026-01-02, and their summary reports current-month total 50000,
\* previous-month total 100000, difference -50000 and percentage -1/2.
C6_EndToEnd ==
    /\ (op = "parse_html_content" /\ args.html = ExampleReport) =>
           rows = ExampleRecords("2026-01-02")
    /\ (op = "build_dashboard_data" /\ rows = ExampleRecords("2026-01-02")) =>
           ExampleTotals

C6_Witness ==
    /\ op = "build_dashboard_data"
    /\ rows = ExampleRecords("2026-01-02")
    /\ sales_detail = rows
    /\ ExampleTotals

----------------------------------------------------------------------------
(* Month-over-month by dimension: _build_monthly_top applied to a record   *)
(* collection.  A collection is a few freely chosen records followed by a  *)
(* run of records with one label each, so that more than ten labels occur. *)

MoMDates == {"2026-01-02", "31/12/25", "01 Des 2025"}
MoMLabels == {None, Some("A")}
MoMRecs == {Rec(d, None, Some("S"), l, Some(5)) : d \in MoMDates, l \in MoMLabels}

\* the j-th record of the run: its own label, January 2026 and December 2025
\* in turn, amounts 5, 10, 0, 5, 10, 0, ...
PadRec(j) ==
    Rec(IF j % 2 = 1 THEN "2026-01-02" ELSE "2025-12-01", None, Some("S"),
        Some("P" \o ToString(j)), Some(5 * (j % 3)))
Pad(k) == [j \in 1..k |-> PadRec(j)]
PadSizes == {0, MaxPad - 1, MaxPad}
MoMInputs == {free \o Pad(k) : free \in SeqsUpTo(MoMRecs, MaxFree), k \in PadSizes}
MoMBases == {<<Some(2026), Some(1)>>, <<Some(2025), Some(12)>>, <<None, None>>}

InitMoM ==
    /\ sales_detail = <<>>
    /\ rows \in MoMInputs
    /\ op = "init"
    /\ args = NoArgs
    /\ out = NoResult
    /\ hashseed \in 0..MaxSeed
    /\ access_codes = <<>>
    /\ replacing = NotReplacing(sales_detail)

NextMoM == BuildMonthlyTop(MoMBases)

SpecMoM == InitMoM /\ [][NextMoM]_vars

\* the month before ym, by month number
MonthBefore(ym) == <<(MonthIndex(ym) - 1) \div 12, ((MonthIndex(ym) - 1) % 12) + 1>>
\* the records of month ym carrying label l in dimension key, the labels
\* seen in month ym
CarryingIn(rs, key, ym, l) == Carrying(rs, key, l) \cap InMonth(rs, ym)
LabelsIn(rs, key, ym) ==
    {rs[i][key][1] : i \in {j \in InMonth(rs, ym) : rs[j][key] # None}} \ {""}

\* C9: the labels _build_monthly_top returns are among the values seen in the
\* current or the previous month; current and previous are the label's sums
\* in the two months (0 where it does not occur); current never increases
\* along the list; at most 10 entries are returned, and all labels of the two
\* months when there are at most 10.
C9_MonthlyTop ==
    (op = "_build_monthly_top" /\ args.base_year # None) =>
        LET cur == <<args.base_year[1], args.base_month[1]>>
            prev == MonthBefore(cur)
            seen == LabelsIn(rows, args.dim_key, cur) \cup LabelsIn(rows, args.dim_key, prev)
        IN /\ \A i \in 1..Len(out) :
                  /\ out[i].label \in seen
                  /\ out[i].current =
                         SumOver(rows, CarryingIn(rows, args.dim_key, cur, out[i].label))
                  /\ out[i].previous =
                         SumOver(rows, CarryingIn(rows, args.dim_key, prev, out[i].label))
           /\ \A i \in 1..Len(out), j \in 1..Len(out) :
                  i < j => out[i].current >= out[j].current
           /\ Len(out) <= 10
           /\ Cardinality(seen) <= 10 => OutLabels = seen

C9_Witness ==
    /\ op = "_build_monthly_top"
    /\ args.dim_key = "item"
    /\ args.base_year = Some(2026)
    /\ Len(out) = 10
    /\ Cardinality(LabelsIn(rows, "item", <<2026, 1>>)
                   \cup LabelsIn(rows, "item", <<2025, 12>>)) > 10
    /\ out[1].label = "A" /\ out[1].current = 10 /\ out[1].previous = 0
    /\ \E i \in 1..Len(out) : out[i].current = 0 /\ out[i].previous = 10

----------------------------------------------------------------------------
(* Row extraction: parse_html_content applied to a report whose rows are   *)
(* data rows, header and blank rows, and rows cut short.  Every row kind   *)
(* carries its own invoice number.                                         *)

Numbered(row, k) == [row EXCEPT ![6] = "SI-" \o ToString(k)]
WithTrailing(row, category, city, ctype) ==
    [row EXCEPT ![30] = category, ![34] = city, ![38] = ctype]
CutTo(row, n) == SubSeq(row, 1, n)

ParseRows ==
    {Numbered(DataRow("Date", "Customer", "Amount"), 1),
     Numbered(DataRow("01 Des 2025", "A", "100,000"), 2),
     Numbered(DataRow("   ", "A", "5"), 3),
     CutTo(Numbered(DataRow("02 Jan 2026", "B", "50,000"), 4), 37),
     CutTo(Numbered(DataRow("02 Jan 2026", "B", "50,000"), 5), 30),
     CutTo(WithTrailing(Numbered(DataRow("15/01/2026", "A", "-"), 6), "Cat", "City", "Type"), 38),
     Numbered(DataRow("foo", "B", "x"), 7),
     Numbered(DataRow(" Date ", "", ""), 8),
     Numbered(DataRow("31 Feb 2025", "", "-5"), 9),
     CutTo(Numbered(DataRow("01 Des 2025", "A", "1"), 10), 26)}
ParseDocs == SeqsUpTo(ParseRows, MaxDocRows)

\* the uploaded document is the argument of the one call
InitParse ==
    /\ sales_detail = <<>>
    /\ rows = <<>>
    /\ op = "init"
    /\ args \in {[html |-> doc] : doc \in ParseDocs}
    /\ out = NoResult
    /\ hashseed = 0
    /\ access_codes = <<>>
    /\ replacing = NotReplacing(sales_detail)

NextParse == ParseHtmlContent({args.html})

SpecParse == InitParse /\ [][NextParse]_vars

\* the row yields a record: 38 cells or more, a date cell that is neither
\* empty nor the header label
Produces(tds) == Len(tds) >= 38 /\ Strip(tds[2]) \notin {"", "Date"}
InvoiceCell(tds) == Strip(tds[6])
InvoiceNumbers(rs) == [i \in 1..Len(rs) |-> rs[i].invoice_no]
InvoiceCells(doc) == [i \in 1..Len(doc) |-> InvoiceCell(doc[i])]

\* C12: a row with fewer than 38 cells, with an empty date cell or with the
\* date cell "Date" gives no record, every other row gives exactly one, and
\* the records are in the order of their rows.
C12_RowsToRecords ==
    op = "parse_html_content" =>
        InvoiceNumbers(rows) = InvoiceCells(SelectSeq(args.html, Produces))

C12_Witness ==
    /\ op = "parse_html_content"
    /\ Len(args.html) = 2
    /\ ~Produces(args.html[1])
    /\ Len(args.html[1]) >= 38
    /\ Len(rows) = 1
    /\ rows[1].invoice_no = InvoiceCell(args.html[2])

\* the row reaches the amount cell (tds[25]) but not the customer-type cell
\* (tds[37]), and is neither blank nor the header
ShortDataRow(tds) == Len(tds) >= 26 /\ Len(tds) < 38 /\ Strip(tds[2]) \notin {"", "Date"}

\* C13: a row that reaches the amount cell but not the category, city or
\* customer-type cell gives a record, whose fields for the cells it does not
\* reach are absent.
C13_ShortRowKept ==
    op = "parse_html_content" =>
        \A i \in 1..Len(args.html) :
            ShortDataRow(args.html[i]) =>
                \E j \in 1..Len(rows) :
                    /\ rows[j].invoice_no = InvoiceCell(args.html[i])
                    /\ Len(args.html[i]) <= 29 => rows[j].item_category = None
                    /\ Len(args.html[i]) <= 33 => rows[j].city = None
                    /\ rows[j].customer_type = None

----------------------------------------------------------------------------
(* Field normalizers: _parse_date and _parse_number applied to one text.   *)

MaxText == 4        \* length of the generated amount texts

DayTexts == {"01", "15", "31", "1"}
MonthTexts == {"Des", "MEI", "agustus", "Okt", "Feb", "Foo", "12", "02"}
YearTexts == {"2025", "2024", "25"}
DateTexts ==
    {d \o sep \o m \o sep \o y :
        d \in DayTexts, m \in MonthTexts, y \in YearTexts, sep \in {" ", "/"}}
    \cup {"", "   ", "2025-12-01", " 2025-12-01 ", " 15/01/2026 ", "01  Des  2025",
          "01 Des 2025 x", "1_5 Mei 2024", "+1 Des 2025", "foo", "01 Des 0",
          "29 feb 2024", "29 feb 2025", "2025-02-30", "15 Mei 2024"}

NumberChars == {"0", "5", "-", ",", " "}
RECURSIVE TextsUpTo(_)
TextsUpTo(n) ==
    IF n = 0 THEN {""}
    ELSE {""} \cup {c \o t : c \in NumberChars, t \in TextsUpTo(n - 1)}
NumberTexts == TextsUpTo(MaxText) \cup {"20,000", "350.000,00", "abc", "Rp 1.250", "-1,5-"}

NormTexts == DateTexts \cup NumberTexts

\* _parse_date(text)
ParseDate(texts) ==
    \E text \in texts :
        /\ op' = "_parse_date"
        /\ args' = [text |-> text]
        /\ out' = _parse_date(text)
        /\ UNCHANGED <<sales_detail, rows, hashseed, access_codes, replacing>>

\* _parse_number(text)
ParseNumber(texts) ==
    \E text \in texts :
        /\ op' = "_parse_number"
        /\ args' = [text |-> text]
        /\ out' = _parse_number(text)
        /\ UNCHANGED <<sales_detail, rows, hashseed, access_codes, replacing>>

\* the text is the argument of the calls
InitNormalize ==
    /\ sales_detail = <<>>
    /\ rows = <<>>
    /\ op = "init"
    /\ args \in {[text |-> t] : t \in NormTexts}
    /\ out = NoResult
    /\ hashseed = 0
    /\ access_codes = <<>>
    /\ replacing = NotReplacing(sales_detail)

NextNormalize == ParseDate({args.text}) \/ ParseNumber({args.text})

SpecNormalize == InitNormalize /\ [][NextNormalize]_vars

\* YYYY-MM-DD: four, two and two digits between "-"
IsoShape(s) ==
    /\ Len(s) = 10
    /\ \A i \in {1, 2, 3, 4, 6, 7, 9, 10} : Char(s, i) \in Digits
    /\ Char(s, 5) = "-" /\ Char(s, 8) = "-"
FourDigits(n) ==
    IF n < 10 THEN "000" \o ToString(n)
    ELSE IF n < 100 THEN "00" \o ToString(n)
    ELSE IF n < 1000 THEN "0" \o ToString(n) ELSE ToString(n)
Canonical(y, m, d) == FourDigits(y) \o "-" \o TwoDigits(m) \o "-" \o TwoDigits(d)

\* the day a slash-delimited text d/m/y denotes, f its fields; a year of two
\* digits is 2000..2068 or 1969..1999
SlashYear(y) ==
    IF Len(y) = 4 THEN DecimalValue(y)
    ELSE IF DecimalValue(y) <= 68 THEN 2000 + DecimalValue(y) ELSE 1900 + DecimalValue(y)
SlashDay(f) == <<SlashYear(f[3]), DecimalValue(f[2]), DecimalValue(f[1])>>
SlashFields(f) ==
    /\ Len(f) = 3
    /\ AllDigits(f[1]) /\ Len(f[1]) <= 2
    /\ AllDigits(f[2]) /\ Len(f[2]) <= 2
    /\ AllDigits(f[3]) /\ Len(f[3]) \in {2, 4}
    /\ ValidDate(SlashYear(f[3]), DecimalValue(f[2]), DecimalValue(f[1]))
\* t is a slash-delimited date that denotes a valid calendar day
SlashForm(t) == SlashFields(SplitOn(t, "/"))
SlashFormDay(t) == SlashDay(SplitOn(t, "/"))

\* C14 as claimed: _parse_date converts a slash-delimited day/month/year date
\* (year of four or of two digits) that denotes a valid calendar date to
\* YYYY-MM-DD, and whatever it converts is in YYYY-MM-DD form.
C14_SlashDatesCanonicalised ==
    op = "_parse_date" =>
        /\ SlashForm(Strip(args.text)) =>
               out = Canonical(SlashFormDay(Strip(args.text))[1],
                               SlashFormDay(Strip(args.text))[2],
                               SlashFormDay(Strip(args.text))[3])
        /\ out # Strip(args.text) => IsoShape(out)

\* C14, amended: _parse_date returns a slash-delimited date unchanged, without
\* the surrounding whitespace, and the parsing chain of the filter and of the
\* aggregation reads the returned text as the day it denotes.
C14_SlashDatesKept ==
    (op = "_parse_date" /\ SlashForm(Strip(args.text))) =>
        /\ out = Strip(args.text)
        /\ _parse_any_date(out) = SlashFormDay(Strip(args.text))
        /\ _get_year_month(out) = <<SlashFormDay(Strip(args.text))[1],
                                    SlashFormDay(Strip(args.text))[2]>>

C14_Witness ==
    /\ op = "_parse_date"
    /\ args.text = "31/12/25"
    /\ out = "31/12/25"
    /\ _parse_any_date(out) = <<2025, 12, 31>>

\* the month table as the claim gives it, English and Indonesian
ClaimedMonth(key) ==
    CASE key \in {"JAN"} -> 1 [] key \in {"FEB"} -> 2 [] key \in {"MAR"} -> 3
      [] key \in {"APR"} -> 4 [] key \in {"MEI", "MAY"} -> 5 [] key \in {"JUN"} -> 6
      [] key \in {"JUL"} -> 7 [] key \in {"AGU", "AUG"} -> 8 [] key \in {"SEP"} -> 9
      [] key \in {"OKT", "OCT"} -> 10 [] key \in {"NOV"} -> 11
      [] key \in {"DES", "DEC"} -> 12 [] OTHER -> 0
\* the outcome the claim gives for the text "<day> <month> <year>", day and
\* year written in digits
FreeTextOutcome(text, day, month, year) ==
    IF month # 0 /\ ValidDate(year, month, day) THEN Canonical(year, month, day) ELSE text
FreeTextParts(text, parts, result) ==
    (Len(parts) = 3 /\ AllDigits(parts[1]) /\ AllDigits(parts[3])) =>
        result = FreeTextOutcome(text, DecimalValue(parts[1]),
                                 ClaimedMonth(Upper(Prefix(parts[2], 3))),
                                 DecimalValue(parts[3]))

\* C15: for a text "<day> <month> <year>" the month is looked up by its first
\* three letters, case-insensitively; a known month with a valid calendar day
\* and year gives YYYY-MM-DD, an unknown month or an invalid date gives the
\* text unchanged; "01 Des 2025" gives "2025-12-01", "15 Mei 2024" gives
\* "2024-05-15".
C15_FreeTextForm ==
    op = "_parse_date" =>
        /\ FreeTextParts(Strip(args.text), SplitWhitespace(args.text), out)
        /\ args.text = "01 Des 2025" => out = "2025-12-01"
        /\ args.text = "15 Mei 2024" => out = "2024-05-15"

\* C16: _parse_date returns a text of the form YYYY-MM-DD unchanged, and
\* applied to its own result it returns that result.
C16_ParseDateIdempotent ==
    op = "_parse_date" =>
        /\ IsoShape(args.text) => out = args.text
        /\ _parse_date(out) = out

C16_Witness ==
    /\ op = "_parse_date"
    /\ args.text = "01 Des 2025"
    /\ out = "2025-12-01"
    /\ _parse_date(out) = out

\* the remainder is a number: digits, after at most one leading minus sign
ValidNumber(r) ==
    \/ Len(r) > 0 /\ AllDigits(r)
    \/ Len(r) > 1 /\ Char(r, 1) = "-" /\ AllDigits(SubSeq(r, 2, Len(r)))
NumberValue(r) ==
    IF Char(r, 1) = "-" THEN 0 - DecimalValue(SubSeq(r, 2, Len(r))) ELSE DecimalValue(r)
NumberOutcome(remainder, result) ==
    IF ValidNumber(remainder) THEN result = Some(NumberValue(remainder)) ELSE result = None

FreeTextMatch(parts) ==
    /\ Len(parts) = 3
    /\ ClaimedMonth(Upper(Prefix(parts[2], 3))) # 0
    /\ PyInt(parts[1]) # None /\ PyInt(parts[3]) # None
    /\ ValidDate(PyInt(parts[3])[1], ClaimedMonth(Upper(Prefix(parts[2], 3))), PyInt(parts[1])[1])
NoDateForm(t) == FormatChain(t) = NoDate /\ ~FreeTextMatch(SplitWhitespace(t))
DateCell(tds) == Strip(tds[2])

\* C18: every record parse_html_content returns has a non-empty invoice_date,
\* and a row that is kept and whose date cell has none of the date forms
\* gives a record with that cell's text as invoice_date.
C18_DateNeverEmpty ==
    op = "parse_html_content" =>
        /\ \A j \in 1..Len(rows) : rows[j].invoice_date # ""
        /\ \A i \in 1..Len(args.html) :
               (Produces(args.html[i]) /\ NoDateForm(DateCell(args.html[i]))) =>
                   \E j \in 1..Len(rows) :
                       /\ rows[j].invoice_no = InvoiceCell(args.html[i])
                       /\ rows[j].invoice_date = DateCell(args.html[i])

C18_Witness ==
    /\ op = "parse_html_content"
    /\ Len(rows) = 2
    /\ rows[1].invoice_date = "31 Feb 2025"
    /\ rows[2].invoice_date = "foo"

----------------------------------------------------------------------------
(* Repeated evaluation: build_dashboard_data applied to one record         *)
(* sequence by processes that differ only in their string-hash seed (the   *)
(* interpreter draws a seed at start-up; a restart or a second worker has  *)
(* another one).                                                           *)

SeedDates == {"2026-01-02", "2025-12-01"}
SeedLabels == {"A", "B"}
SeedRecs == {Rec(d, None, Some(l), Some(l), Some(5)) : d \in SeedDates, l \in SeedLabels}

InitSeed ==
    /\ sales_detail = <<>>
    /\ rows \in SeqsUpTo(SeedRecs, MaxRows)
    /\ op = "init"
    /\ args = NoArgs
    /\ out = NoResult
    /\ hashseed \in 0..MaxSeed
    /\ access_codes = <<>>
    /\ replacing = NotReplacing(sales_detail)

NextSeed == BuildDashboardData

SpecSeed == InitSeed /\ [][NextSeed]_vars

\* the place where label l is first met among the records of months cur and
\* prev, and "entries with equal current sums stand in first-met order"
FirstMetIn(rs, key, cur, prev, l) ==
    CHOOSE i \in CarryingIn(rs, key, cur, l) \cup CarryingIn(rs, key, prev, l) :
        \A j \in CarryingIn(rs, key, cur, l) \cup CarryingIn(rs, key, prev, l) : i <= j
TiesFirstSeen(rs, key, cur, prev, list) ==
    \A i \in 1..Len(list), j \in 1..Len(list) :
        (i < j /\ list[i].current = list[j].current) =>
            FirstMetIn(rs, key, cur, prev, list[i].label)
                < FirstMetIn(rs, key, cur, prev, list[j].label)

\* C21: build_dashboard_data gives the same summary for the same record
\* sequence whatever process evaluates it, and in item_mom_top10 and
\* salesman_mom_top10 labels with equal current sums stand in the order in
\* which the records first show them.
C21_Deterministic ==
    op = "build_dashboard_data" =>
        /\ \A seed \in 0..MaxSeed : build_dashboard_data(rows, seed) = out
        /\ out.base_month # NoYM =>
               /\ TiesFirstSeen(rows, "item", out.base_month, out.prev_month,
                                out.item_mom_top10)
               /\ TiesFirstSeen(rows, "salesman", out.base_month, out.prev_month,
                                out.salesman_mom_top10)

----------------------------------------------------------------------------
(* Replacement of the stored rows next to a reader.  The sequence is the   *)
(* one of main.upload (lines 1183-1186): clear_sales when clear_before is  *)
(* "1", then insert_rows.  Each of the two functions commits on its own,   *)
(* so each is one atomic step and a fetch_sales of another request can run *)
(* between them.                                                           *)

ReplaceRecs == {Rec("2025-12-01", Some(c), None, None, Some(5)) : c \in {"A", "B"}}
ReplaceInputs == SeqsUpTo(ReplaceRecs, MaxStored)

\* lines 1183-1184: clear_sales (DELETE and commit) when clear_before is "1"
ReplaceClear(inputs) ==
    \E new \in inputs, clear_before \in {"1", "0"} :
        /\ replacing.pc = "idle"
        /\ clear_before = "0" => Len(sales_detail) + Len(new) <= MaxStored
        /\ sales_detail' = IF clear_before = "1" THEN clear_sales(sales_detail)
                           ELSE sales_detail
        /\ replacing' = [pc |-> "insert", records |-> new, before |-> sales_detail,
                         after |-> IF clear_before = "1" THEN new
                                   ELSE sales_detail \o new]
        /\ op' = "clear_sales"
        /\ args' = [clear_before |-> clear_before]
        /\ rows' = new
        /\ out' = NoResult
        /\ UNCHANGED <<hashseed, access_codes>>

\* line 1186: insert_rows (INSERT and commit)
ReplaceInsert ==
    /\ replacing.pc = "insert"
    /\ sales_detail' = insert_rows(sales_detail, replacing.records)
    /\ replacing' = NotReplacing(sales_detail')
    /\ op' = "insert_rows"
    /\ args' = NoArgs
    /\ rows' = replacing.records
    /\ out' = NoResult
    /\ UNCHANGED <<hashseed, access_codes>>

InitReplace ==
    /\ sales_detail \in ReplaceInputs
    /\ rows = <<>>
    /\ op = "init"
    /\ args = NoArgs
    /\ out = NoResult
    /\ hashseed = 0
    /\ access_codes = <<>>
    /\ replacing = NotReplacing(sales_detail)

NextReplace ==
    \/ ReplaceClear(ReplaceInputs)
    \/ ReplaceInsert
    \/ FetchSales({None})

SpecReplace == InitReplace /\ [][NextReplace]_vars

----------------------------------------------------------------------------
(* Analytics calls in sequence: rows are fetched from the table and handed *)
(* to _aggregate_top_n, _build_monthly_top and build_dashboard_data, any   *)
(* number of times and in any order.  A record's customer, salesman and    *)
(* item are absent, the empty text, or a name.                             *)

AggDates == {"2026-01-02", "2025-12-01"}
AggLabels == {None, Some(""), Some("A")}
AggRecs == {Rec(d, l, l, l, Some(5)) : d \in AggDates, l \in AggLabels}
AggBounds == {None, Some("2025-12-31")}
AggBases == {<<Some(2026), Some(1)>>, <<None, None>>}

InitAgg ==
    /\ sales_detail \in SeqsUpTo(AggRecs, MaxFree)
    /\ rows = <<>>
    /\ op = "init"
    /\ args = NoArgs
    /\ out = NoResult
    /\ hashseed = 0
    /\ access_codes = <<>>
    /\ replacing = NotReplacing(sales_detail)

NextAgg ==
    \/ FetchSales(AggBounds)
    \/ AggregateTopN
    \/ BuildMonthlyTop(AggBases)
    \/ BuildDashboardData

SpecAgg == InitAgg /\ [][NextAgg]_vars

AggregationOps == {"_aggregate_top_n", "_build_monthly_top", "build_dashboard_data"}

BlankToNone(o) == IF o = Some("") THEN None ELSE o
Blanked(rs) ==
    [i \in 1..Len(rs) |->
        [rs[i] EXCEPT !.customer = BlankToNone(@), !.salesman = BlankToNone(@),
                      !.item = BlankToNone(@)]]
NoEmptyLabel(list) == \A i \in 1..Len(list) : list[i].label # ""

\* C28: a record whose customer, salesman or item is the empty text counts
\* as one where it is absent: _aggregate_top_n, _build_monthly_top and
\* build_dashboard_data return what they return for the records with the
\* empty texts made absent, no group is labelled "", customer_count counts
\* the non-empty customers, and the record's amount is in total_sales and in
\* the total of its month.
C28_EmptyIsAbsent ==
    /\ op = "_aggregate_top_n" =>
           /\ out = _aggregate_top_n(Blanked(rows), args.key, args.n)
           /\ NoEmptyLabel(out)
    /\ op = "_build_monthly_top" =>
           /\ out = _build_monthly_top(Blanked(rows), args.dim_key, args.base_year,
                                       args.base_month, hashseed)
           /\ NoEmptyLabel(out)
    /\ op = "build_dashboard_data" =>
           /\ out = build_dashboard_data(Blanked(rows), hashseed)
           /\ out.customer_count = Cardinality(LabelsOf(rows, "customer"))
           /\ out.total_sales = SumOver(rows, 1..Len(rows))
           /\ out.base_month # NoYM =>
                  /\ out.total_month_current = Some(SumOver(rows, InMonth(rows, out.base_month)))
                  /\ out.total_month_prev = Some(SumOver(rows, InMonth(rows, out.prev_month)))

C28_Witness ==
    /\ op = "build_dashboard_data"
    /\ Len(rows) = 2
    /\ rows[1].customer = Some("") /\ rows[1].item = Some("")
    /\ rows[1].invoice_date = "2026-01-02"
    /\ rows[2].customer = Some("A")
    /\ rows[2].invoice_date = "2025-12-01"
    /\ out.customer_count = 1
    /\ out.total_sales = 10
    /\ out.total_month_current = Some(5)
    /\ Len(out.top10_item) = 1
    /\ Len(out.item_mom_top10) = 1

----------------------------------------------------------------------------
(* database.upsert_access_code and database.get_active_access_code.  A row *)
(* of access_codes is [code, customer_name, active, valid_from, valid_to]; *)
(* valid_from and valid_to are TEXT or NULL.                               *)

CodeRow(code, customer_name, active, valid_from, valid_to) ==
    [code |-> code, customer_name |-> customer_name, active |-> active,
     valid_from |-> valid_from, valid_to |-> valid_to]

\* INSERT without the ON CONFLICT clause and without the UNIQUE constraint
UpsertAlwaysInserts(table, row) == Append(table, row)
\* lines 206-218: INSERT ... ON CONFLICT(code) DO UPDATE SET the four fields
upsert_access_code(table, row) ==
    IF \E i \in 1..Len(table) : table[i].code = row.code
    THEN [i \in 1..Len(table) |-> IF table[i].code = row.code THEN row ELSE table[i]]
    ELSE Append(table, row)

\* The byte of a character of a date text, and SQLite's comparison of two
\* TEXT values (BINARY collation: byte by byte, the shorter first).
ByteOf(c) == IF c \in Digits THEN 48 + DigitVal(c) ELSE IF c = "/" THEN 47 ELSE 45
RECURSIVE TextLessEq(_, _)
TextLessEq(a, b) ==
    IF Len(a) = 0 THEN TRUE
    ELSE IF Len(b) = 0 THEN FALSE
    ELSE IF Char(a, 1) = Char(b, 1)
         THEN TextLessEq(SubSeq(a, 2, Len(a)), SubSeq(b, 2, Len(b)))
         ELSE ByteOf(Char(a, 1)) < ByteOf(Char(b, 1))

\* the WHERE clause of lines 237-246
RowMatches(r, code, today) ==
    /\ r.code = code
    /\ r.active = 1
    /\ r.valid_from = None \/ TextLessEq(r.valid_from[1], today)
    /\ r.valid_to = None \/ TextLessEq(today, r.valid_to[1])

\* lines 247-251: fetchone, None or the row as a dict
FirstOrNone(found) == IF Len(found) = 0 THEN None ELSE Some(found[1])
get_active_access_code(table, code, today) ==
    FirstOrNone(SelectSeq(table, LAMBDA r : RowMatches(r, code, today)))

\* upsert_access_code(conn, code, customer_name, active, valid_from, valid_to)
UpsertAccessCode(inputs) ==
    \E row \in inputs :
        /\ access_codes' = upsert_access_code(access_codes, row)
        /\ op' = "upsert_access_code"
        /\ args' = row
        /\ out' = NoResult
        /\ UNCHANGED <<sales_detail, rows, hashseed, replacing>>

\* get_active_access_code(conn, code, today)
GetActiveAccessCode(codes, days) ==
    \E code \in codes, today \in days :
        /\ op' = "get_active_access_code"
        /\ args' = [code |-> code, today |-> today]
        /\ out' = get_active_access_code(access_codes, code, today)
        /\ UNCHANGED <<sales_detail, rows, hashseed, access_codes, replacing>>

----------------------------------------------------------------------------
(* Access codes: codes are created, changed, switched off and looked up.   *)
(* Dates are ISO texts, as manage_codes.py writes them (date.isoformat()). *)

CodeNames == {"DEMO-1234", "ABC-2025"}
ValidityDays == {"2026-09-30", "2026-10-01"}
LookupDays == {"2025-12-31", "2026-09-30", "2026-10-01", "2026-10-02"}
CodeInputs ==
    {CodeRow(c, "X", a, f, t) :
        c \in CodeNames, a \in {0, 1},
        f \in {None} \cup {Some(d) : d \in ValidityDays},
        t \in {None} \cup {Some(d) : d \in ValidityDays}}

InitCodes ==
    /\ sales_detail = <<>>
    /\ rows = <<>>
    /\ op = "init"
    /\ args = NoArgs
    /\ out = NoResult
    /\ hashseed = 0
    /\ access_codes = <<>>
    /\ replacing = NotReplacing(sales_detail)

NextCodes ==
    \/ UpsertAccessCode(CodeInputs)
    \/ GetActiveAccessCode(CodeNames, LookupDays)

SpecCodes == InitCodes /\ [][NextCodes]_vars

\* the calendar day of an ISO text as one number
DayOf(text) == DayNumber(StrptimeIso(text))
\* the row of code in the table, and "the row is in force on day today"
RowsOfCode(table, code) == {i \in 1..Len(table) : table[i].code = code}
InForce(r, today) ==
    /\ r.active = 1
    /\ r.valid_from = None \/ DayOf(r.valid_from[1]) <= DayOf(today)
    /\ r.valid_to = None \/ DayOf(r.valid_to[1]) >= DayOf(today)

\* C27: get_active_access_code(code, today) returns a record, the row of the
\* code, exactly when the table has a row of the code whose active flag is 1,
\* whose valid_from is null or a day not after today and whose valid_to is
\* null or a day not before today.  The table never has two rows of one
\* code; after an upsert the row of its code holds the upsert's fields, and
\* the rows of other codes are as before.
C27_ActiveCodeAndUpsert ==
    /\ [](op = "get_active_access_code" =>
              /\ out # None <=>
                     \E i \in RowsOfCode(access_codes, args.code) :
                         InForce(access_codes[i], args.today)
              /\ out # None => \E i \in RowsOfCode(access_codes, args.code) :
                                   out[1] = access_codes[i])
    /\ [](\A c \in CodeNames : Cardinality(RowsOfCode(access_codes, c)) <= 1)
    /\ [](op = "upsert_access_code" =>
              \E i \in RowsOfCode(access_codes, args.code) : access_codes[i] = args)
    /\ [][op' = "upsert_access_code" =>
              \A c \in CodeNames \ {args'.code} :
                  {access_codes'[i] : i \in RowsOfCode(access_codes', c)}
                      = {access_codes[i] : i \in RowsOfCode(access_codes, c)}]_vars

\* a code that was valid from 2026-10-01 is upserted again, switched off and
\* open-ended, and is looked up on 2026-10-02
C27_Witness ==
    /\ op = "get_active_access_code"
    /\ args = [code |-> "DEMO-1234", today |-> "2026-10-02"]
    /\ out = None
    /\ Len(access_codes) = 2
    /\ access_codes[1] = CodeRow("DEMO-1234", "X", 0, None, None)
    /\ access_codes[2].code = "ABC-2025"

----------------------------------------------------------------------------
(* The routes of main.py that guard and use the sales storage.  A request  *)
(* carries its cookie; today is date.today() at the time of the request.   *)
(* A response is [status, page, level, set_cookie, body].                  *)

AccessPage(level) ==
    [status |-> 200, page |-> "access", level |-> level, set_cookie |-> None,
     body |-> NoResult]
Dashboard(level) ==
    [status |-> 200, page |-> "dashboard", level |-> level, set_cookie |-> None,
     body |-> NoResult]
Redirect(code) ==
    [status |-> 302, page |-> "redirect", level |-> "info", set_cookie |-> Some(code),
     body |-> NoResult]
Unauthorized ==
    [status |-> 401, page |-> "json", level |-> "error", set_cookie |-> None,
     body |-> NoResult]
JsonContent(data) ==
    [status |-> 200, page |-> "json", level |-> "info", set_cookie |-> None,
     body |-> Some(data)]
\* the answer of the framework to an exception that leaves a route
ServerError ==
    [status |-> 500, page |-> "error", level |-> "error", set_cookie |-> None,
     body |-> NoResult]

\* main.is_authorized without the look-up of the code in access_codes
IsAuthorizedByCookieAlone(table, cookie, today) == TruthyText(cookie)
\* main.is_authorized, lines 27-38
is_authorized(table, cookie, today) ==
    /\ TruthyText(cookie)
    /\ get_active_access_code(table, cookie[1], today) # None

\* Python's binding of a call to a def: params are the parameter names,
\* `required` of them have no default, the call passes `positional`
\* positional arguments and the keyword arguments `keywords`.  A call that
\* does not bind raises TypeError before the body runs.
Binds(params, required, positional, keywords) ==
    /\ positional <= Len(params)
    /\ \A k \in keywords : \E i \in (positional + 1)..Len(params) : params[i] = k
    /\ \A i \in 1..required : i <= positional \/ params[i] \in keywords

\* def clear_sales(conn), def insert_rows(conn, rows),
\* def fetch_sales(conn, start_date=None, end_date=None)
ClearSalesParams == <<"conn">>
InsertRowsParams == <<"conn", "rows">>
FetchSalesParams == <<"conn", "start_date", "end_date">>

\* upload, lines 1183-1184: clear_sales(conn, access_code) when clear_before
\* is "1".  The result is the table and whether the call raised.
UploadClear(table, clear_before) ==
    IF clear_before # Some("1") THEN [raised |-> FALSE, table |-> table]
    ELSE IF Binds(ClearSalesParams, 1, 2, {})
         THEN [raised |-> FALSE, table |-> clear_sales(table)]
         ELSE [raised |-> TRUE, table |-> table]
\* upload, line 1187: insert_rows(conn, [r.to_tuple() for r in records],
\* access_code), not reached when clear_sales raised
UploadInsert(cleared, records) ==
    IF cleared.raised THEN cleared
    ELSE IF Binds(InsertRowsParams, 2, 3, {})
         THEN [raised |-> FALSE, table |-> insert_rows(cleared.table, records)]
         ELSE [raised |-> TRUE, table |-> cleared.table]
\* lines 1190-1196: the success message, or the error message of the except
UploadResponse(stored) ==
    IF stored.raised THEN Dashboard("error") ELSE Dashboard("success")

\* get_sales line 1215 and get_dashboard_data line 1234:
\* fetch_sales(conn, access_code=..., start_date=..., end_date=...)
FetchSalesCall(table, start_date, end_date) ==
    IF Binds(FetchSalesParams, 1, 1, {"access_code", "start_date", "end_date"})
    THEN fetch_sales(table, start_date, end_date)
    ELSE Raised("TypeError")
SalesResponse(fetched) ==
    IF fetched.raised THEN ServerError ELSE JsonContent(fetched.value)
DashboardDataResponse(fetched, seed) ==
    IF fetched.raised THEN ServerError
    ELSE JsonContent(build_dashboard_data(fetched.value, seed))

\* POST /access, lines 152-167
AccessSubmit(codes, days) ==
    \E code \in codes, today \in days :
        /\ op' = "access_submit"
        /\ args' = [code |-> code, today |-> today]
        /\ out' = IF get_active_access_code(access_codes, Strip(code), today) # None
                  THEN Redirect(Strip(code))
                  ELSE AccessPage("error")
        /\ rows' = <<>>
        /\ UNCHANGED <<sales_detail, hashseed, access_codes, replacing>>

\* POST /upload, lines 1159-1196
Upload(cookies, days, docs) ==
    \E cookie \in cookies, today \in days, doc \in docs,
       clear_before \in {Some("1"), Some("0")} :
        /\ op' = "upload"
        /\ args' = [cookie |-> cookie, today |-> today, html |-> doc,
                    clear_before |-> clear_before]
        /\ IF ~is_authorized(access_codes, cookie, today)
           THEN /\ out' = AccessPage("error")
                /\ rows' = <<>>
                /\ UNCHANGED sales_detail
           ELSE /\ rows' = parse_html_content(doc)
                /\ sales_detail' =
                       UploadInsert(UploadClear(sales_detail, clear_before),
                                    parse_html_content(doc)).table
                /\ out' = UploadResponse(
                              UploadInsert(UploadClear(sales_detail, clear_before),
                                           parse_html_content(doc)))
        /\ UNCHANGED <<hashseed, access_codes, replacing>>

\* GET /sales, lines 1202-1218
GetSales(cookies, days, bounds) ==
    \E cookie \in cookies, today \in days, start_date \in bounds, end_date \in bounds :
        /\ op' = "get_sales"
        /\ args' = [cookie |-> cookie, today |-> today,
                    start_date |-> start_date, end_date |-> end_date]
        /\ out' = IF ~is_authorized(access_codes, cookie, today) THEN Unauthorized
                  ELSE SalesResponse(FetchSalesCall(sales_detail, start_date, end_date))
        /\ rows' = <<>>
        /\ UNCHANGED <<sales_detail, hashseed, access_codes, replacing>>

\* GET /dashboard-data, lines 1221-1239
GetDashboardData(cookies, days, bounds) ==
    \E cookie \in cookies, today \in days, start_date \in bounds, end_date \in bounds :
        /\ op' = "get_dashboard_data"
        /\ args' = [cookie |-> cookie, today |-> today,
                    start_date |-> start_date, end_date |-> end_date]
        /\ out' = IF ~is_authorized(access_codes, cookie, today) THEN Unauthorized
                  ELSE DashboardDataResponse(
                           FetchSalesCall(sales_detail, start_date, end_date), hashseed)
        /\ rows' = <<>>
        /\ UNCHANGED <<sales_detail, hashseed, access_codes, replacing>>

\* The table after startup_event (lines 1116-1143), one stored row or none,
\* and the requests made: by the two codes, by an unknown code, with an
\* empty cookie and with none.
StartupCodes ==
    <<CodeRow("DEMO-1234", "Demo Customer", 1, None, None),
      CodeRow("ABC-2025", "Customer Contoh", 1, None, None)>>
WebCodeInputs ==
    {CodeRow(c, "X", a, None, t) :
        c \in CodeNames, a \in {0, 1}, t \in {None, Some("2026-09-30")}}
WebDays == {"2026-09-30", "2026-10-01"}
WebCookies == {None, Some(""), Some("DEMO-1234"), Some("ABC-2025"), Some("NOPE")}
WebCodes == {"DEMO-1234", " DEMO-1234 ", "ABC-2025", "NOPE", ""}
WebDocs == {<<>>, <<DataRow("01 Des 2025", "A", "100,000")>>}
WebStored == {<<>>, <<Rec("2025-11-30", Some("B"), None, None, Some(5))>>}

InitWeb ==
    /\ sales_detail \in WebStored
    /\ rows = <<>>
    /\ op = "init"
    /\ args = NoArgs
    /\ out = NoResult
    /\ hashseed = 0
    /\ access_codes = StartupCodes
    /\ replacing = NotReplacing(sales_detail)

NextWeb ==
    \/ UpsertAccessCode(WebCodeInputs)
    \/ AccessSubmit(WebCodes, WebDays)
    \/ Upload(WebCookies, WebDays, WebDocs)
    \/ GetSales(WebCookies, WebDays, {None})
    \/ GetDashboardData(WebCookies, WebDays, {None})

SpecWeb == InitWeb /\ [][NextWeb]_vars

\* the cookie names a code of the table that is in force on day today
Permitted(table, cookie, today) ==
    /\ cookie # None
    /\ \E i \in RowsOfCode(table, cookie[1]) : InForce(table[i], today)

\* C24: an upload by a code that is in force ends with the success status;
\* with clear_before "1" the stored rows are then exactly the parsed records,
\* otherwise the rows stored before followed by the parsed records.  (A row
\* of sales_detail carries no access code, so all stored rows are counted as
\* the requesting code's.)
C24_UploadReplaces ==
    [][(op' = "upload" /\ Permitted(access_codes', args'.cookie, args'.today)) =>
           /\ out'.level = "success"
           /\ sales_detail' =
                  IF args'.clear_before = Some("1") THEN parse_html_content(args'.html)
                  ELSE sales_detail \o parse_html_content(args'.html)]_vars

\* C25: a /sales or /dashboard-data request of a code that is in force is
\* answered with the payload computed from the stored rows of that code: the
\* rows for /sales, their summary for /dashboard-data.  (All stored rows are
\* counted as the requesting code's, as in C24.)
C25_TenantScopedRead ==
    /\ (op = "get_sales" /\ Permitted(access_codes, args.cookie, args.today)) =>
           /\ out.status = 200
           /\ out.body = Some(sales_detail)
    /\ (op = "get_dashboard_data" /\ Permitted(access_codes, args.cookie, args.today)) =>
           /\ out.status = 200
           /\ out.body = Some(build_dashboard_data(sales_detail, hashseed))

SalesRequests == {"upload", "get_sales", "get_dashboard_data"}
Refusal(request, response) ==
    /\ response.body = NoResult
    /\ response.set_cookie = None
    /\ IF request = "upload" THEN response.page = "access" /\ response.level = "error"
       ELSE response.status = 401

\* C26: an /upload, /sales or /dashboard-data request whose cookie names no
\* code that is in force on the day of the request (none, an unknown one, one
\* switched off or expired since) is refused, with the access page or with
\* 401, returns no sales data and leaves the stored rows as they were; this
\* holds for every request, whatever was answered before.  /access sets the
\* cookie exactly when the submitted code, stripped, is in force, and sets
\* it to that code.
C26_AuthorizationGate ==
    /\ []((op \in SalesRequests /\ ~Permitted(access_codes, args.cookie, args.today)) =>
              Refusal(op, out))
    /\ [][(op' \in SalesRequests /\ ~Permitted(access_codes', args'.cookie, args'.today)) =>
              sales_detail' = sales_detail]_vars
    /\ [](op = "access_submit" =>
              /\ out.set_cookie # None <=>
                     Permitted(access_codes, Some(Strip(args.code)), args.today)
              /\ out.set_cookie # None => out.set_cookie = Some(Strip(args.code)))

\* DEMO-1234, in force at start-up, was given an end on 2026-09-30 and is
\* refused on 2026-10-01
C26_Witness ==
    /\ op = "get_sales"
    /\ args.cookie = Some("DEMO-1234")
    /\ args.today = "2026-10-01"
    /\ access_codes[1] = CodeRow("DEMO-1234", "X", 1, None, Some("2026-09-30"))
    /\ out = Unauthorized
    /\ sales_detail # <<>>

====
